---- MODULE Spec2Model ----
(***************************************************************************)
(* Model of src/model.rs (skim): the display/selection state of the fuzzy  *)
(* finder.  Model owns two cursor coordinates (item_cursor, line_cursor),  *)
(* the set of selected item indices, the matched-item store, the cached    *)
(* terminal geometry and the query; the act_* methods are the commands the *)
(* key loop calls.                                                         *)
(*                                                                         *)
(* Integers: all magnitudes enumerated here are far below 2^31.  A usize    *)
(* is kept as the integer r it was computed as: r >= 0 is the value r, and *)
(* r < 0 is the wrapped value 2^64 + r that `(x) as usize` gives for a     *)
(* negative x and that a usize subtraction below zero gives in a release   *)
(* build.  `as i32` of such a usize is r again, so signed arithmetic on    *)
(* `self.height as i32` uses r directly; where the code reads the usize    *)
(* unsigned (loop ranges, comparisons) the model uses usize_lt.            *)
(***************************************************************************)
EXTENDS Integers, Sequences, FiniteSets, TLC

\* ------------------------------------------------------------------ bounds
NumItems == 3          \* entries of the master item table (identities 0..NumItems-1)
MaxQueryLen == 2       \* longest query buffer explored
MaxDiff == 2           \* largest |diff| handed to act_move_line_cursor
NumFrameItems == 2     \* identities the matcher ranks when every call is interleaved (Spec)
MaxTextLen == 6        \* longest item text handed to the layout helpers
MaxContainer == 6      \* widest container / budget handed to the layout helpers

Diffs == (0 - MaxDiff)..MaxDiff
Pages == {-1, 0, 1}
\* terminal geometries (rows, columns) returned by the curses size query
TermSizes == {<<3, 8>>, <<4, 8>>}
QueryChars == {"a", " "}
ForceStates == {"true", "false", "none"}      \* Option<bool> of act_toggle
\* (matched, total, processed) snapshots handed to update_process_info
ProgressInputs == {<<1, 3, 1>>}

\* UTF-8 lengths of the chars of an item text: ASCII and CJK
CharLens == {1, 3}
\* container widths and budgets handed to the layout helpers
ContainerWidths == 0..MaxContainer
\* terminal geometries whose container width (columns - 3) is 4..MaxContainer
LayoutSizes == {<<4, c + 3>> : c \in 4..MaxContainer}

\* Option<T>: None is the empty sequence, Some(x) the one-element sequence
None == <<>>
Some(x) == <<x>>

VARIABLES
    selected_indics,      \* HashSet<usize>
    matched_items,        \* OrderedVec<MatchedItem>, a sequence of [index |-> identity]
    item_cursor,          \* usize
    line_cursor,          \* usize
    max_y, max_x,         \* i32, cached terminal size
    width, height,        \* usize, set once in Model::new
    num_matched, num_total, processed_percentage,
    query,                \* Query: [buf |-> sequence of chars, pos |-> cursor offset]
    eb,                   \* EventBox slot of Event::EvQueryChange: Some(payload) or None
    last,                 \* the call executed last, its argument and what it reported
    layout                \* the text layout helper applied last: its arguments and result

vars == <<selected_indics, matched_items, item_cursor, line_cursor, max_y, max_x,
          width, height, num_matched, num_total, processed_percentage, query, eb, last,
          layout>>

viewVars == <<item_cursor, line_cursor>>
geomVars == <<max_y, max_x, width, height>>
infoVars == <<num_matched, num_total, processed_percentage>>

\* ------------------------------------------------------------ plain helpers
min(a, b) == IF a < b THEN a ELSE b
max(a, b) == IF a > b THEN a ELSE b

Identities == 0..(NumItems - 1)

\* The master item table (Model.items): text of every candidate line by identity.
ItemTexts == <<"apple", "banana", "cherry", "damson", "elder", "fig", "grape">>
items == [i \in Identities |-> [text |-> ItemTexts[i + 1]]]

\* OrderedVec access contract
StoreLen(s) == Len(s)
StoreGet(s, p) == IF p >= 0 /\ p < Len(s) THEN Some(s[p + 1]) ELSE None
StoreIds(s) == {s[k].index : k \in 1..Len(s)}

\* no layout helper has been applied
NoLayout == [fn |-> "none"]

\* what `last` records: the method, its integer argument, the item_cursor it
\* started from, and for edit commands what the Query reported and whether
\* the event box was set
Call(op, diff, pre, changed, raised) ==
    [op |-> op, diff |-> diff, pre |-> pre, changed |-> changed, raised |-> raised]
Did(op) == Call(op, 0, 0, FALSE, FALSE)

\* ------------------------------------------------------------------ Query
\* The query line editor (module `query`): a buffer and a cursor offset.
\* Every editing operation returns the new Query and whether the content changed.
IsSpace(c) == c = " "

get_query(q) == q.buf

Cut(buf, a, b) == SubSeq(buf, 1, a) \o SubSeq(buf, b + 1, Len(buf))   \* drop buf[a+1..b]

RECURSIVE SkipLeft(_, _, _)
SkipLeft(buf, p, space) ==
    IF p > 0 /\ IsSpace(buf[p]) = space THEN SkipLeft(buf, p - 1, space) ELSE p

RECURSIVE SkipRight(_, _, _)
SkipRight(buf, p, space) ==
    IF p < Len(buf) /\ IsSpace(buf[p + 1]) = space THEN SkipRight(buf, p + 1, space) ELSE p

WordLeft(q) == SkipLeft(q.buf, SkipLeft(q.buf, q.pos, TRUE), FALSE)
WordRight(q) == SkipRight(q.buf, SkipRight(q.buf, q.pos, TRUE), FALSE)

Edited(q, buf, pos) == [q |-> [buf |-> buf, pos |-> pos], changed |-> buf # q.buf]

query_add_char(q, ch) ==
    Edited(q, SubSeq(q.buf, 1, q.pos) \o <<ch>> \o SubSeq(q.buf, q.pos + 1, Len(q.buf)),
           q.pos + 1)
query_backward_delete_char(q) ==
    IF q.pos = 0 THEN Edited(q, q.buf, q.pos)
    ELSE Edited(q, Cut(q.buf, q.pos - 1, q.pos), q.pos - 1)
query_delete_char(q) ==
    IF q.pos = Len(q.buf) THEN Edited(q, q.buf, q.pos)
    ELSE Edited(q, Cut(q.buf, q.pos, q.pos + 1), q.pos)
query_backward_kill_word(q) == Edited(q, Cut(q.buf, WordLeft(q), q.pos), WordLeft(q))
query_kill_word(q) == Edited(q, Cut(q.buf, q.pos, WordRight(q)), q.pos)
query_kill_line(q) == Edited(q, SubSeq(q.buf, 1, q.pos), q.pos)
query_line_discard(q) == Edited(q, <<>>, 0)

query_backward_char(q) == [q EXCEPT !.pos = max(0, q.pos - 1)]
query_forward_char(q) == [q EXCEPT !.pos = min(Len(q.buf), q.pos + 1)]
query_backward_word(q) == [q EXCEPT !.pos = WordLeft(q)]
query_forward_word(q) == [q EXCEPT !.pos = WordRight(q)]
query_beginning_of_line(q) == [q EXCEPT !.pos = 0]
query_end_of_line(q) == [q EXCEPT !.pos = Len(q.buf)]

\* -------------------------------------------------------------- Model::new
\* (curses.get_maxyx() answers one of Sizes)
new(Sizes) ==
    /\ \E sz \in Sizes :
          /\ max_y = sz[1]
          /\ max_x = sz[2]
          /\ width = sz[2] - 2
          /\ height = sz[1] - 2
    /\ query = [buf |-> <<>>, pos |-> 0]
    /\ num_matched = 0
    /\ num_total = 0
    /\ selected_indics = {}
    /\ matched_items = <<>>
    /\ processed_percentage = 100
    /\ item_cursor = 0
    /\ line_cursor = 0
    /\ eb = None
    /\ last = Did("new")

Init == new(TermSizes) /\ layout = NoLayout

\* ------------------------------------------------- store and status updates
\* push_item: the matcher hands over one more ranked match; it ranks every
\* candidate at most once per query.
push_item(id) ==
    /\ id \notin StoreIds(matched_items)
    /\ matched_items' = Append(matched_items, [index |-> id])
    /\ last' = Did("push_item")
    /\ UNCHANGED <<layout, selected_indics, viewVars, geomVars, infoVars, query, eb>>

\* clear_items that also forgets the selection
clear_items_reset ==
    /\ matched_items' = <<>>
    /\ selected_indics' = {}
    /\ last' = Did("clear_items")
    /\ UNCHANGED <<layout, viewVars, geomVars, infoVars, query, eb>>

clear_items ==
    /\ matched_items' = <<>>
    /\ last' = Did("clear_items")
    /\ UNCHANGED <<layout, selected_indics, viewVars, geomVars, infoVars, query, eb>>

update_process_info(matched, total, processed) ==
    /\ num_matched' = matched
    /\ num_total' = total
    /\ processed_percentage' = ((processed + 1) * 100) \div (total + 1)
    /\ last' = Did("update_process_info")
    /\ UNCHANGED <<layout, selected_indics, matched_items, viewVars, geomVars, query, eb>>

\* resize: re-reads the terminal size into max_y/max_x; width and height are
\* not assigned.
resize(sz) ==
    /\ max_y' = sz[1]
    /\ max_x' = sz[2]
    /\ last' = Did("resize")
    /\ UNCHANGED <<layout, selected_indics, matched_items, viewVars, width, height, infoVars,
                   query, eb>>

\* ---------------------------------------------------------------- selection
\* act_select_all: inserts every i in 0..matched_items.len()
select_all_set(sel, store) == sel \cup {i \in 0..(StoreLen(store) - 1) : TRUE}

act_select_all ==
    /\ selected_indics' = select_all_set(selected_indics, matched_items)
    /\ last' = Did("act_select_all")
    /\ UNCHANGED <<layout, matched_items, viewVars, geomVars, infoVars, query, eb>>

\* act_toggle_all that inserts into the old set instead of a fresh one
toggle_all_set_keep(sel, store) == sel \cup {i \in 0..(StoreLen(store) - 1) : i \notin sel}

\* act_toggle_all: the old set is swapped out for an empty one, then every
\* i in 0..matched_items.len() that the old set lacks is inserted
toggle_all_set(sel, store) == {i \in 0..(StoreLen(store) - 1) : i \notin sel}

act_toggle_all ==
    /\ selected_indics' = toggle_all_set(selected_indics, matched_items)
    /\ last' = Did("act_toggle_all")
    /\ UNCHANGED <<layout, matched_items, viewVars, geomVars, infoVars, query, eb>>

\* act_toggle that takes the cursor position itself for the index
toggle_set_position(sel, store, cursor, force) ==
    IF StoreGet(store, cursor) = None THEN sel
    ELSE CASE force = "true" -> sel \cup {cursor}
           [] force = "false" -> sel \ {cursor}
           [] OTHER -> IF cursor \in sel THEN sel \ {cursor} ELSE sel \cup {cursor}

\* act_toggle: looks up the store at item_cursor, returns if there is none,
\* else works on that entry's index
toggle_set(sel, store, cursor, force) ==
    LET matched == StoreGet(store, cursor) IN
    IF matched = None THEN sel
    ELSE LET index == matched[1].index IN
         CASE force = "true" -> sel \cup {index}
           [] force = "false" -> sel \ {index}
           [] OTHER -> IF index \in sel THEN sel \ {index} ELSE sel \cup {index}

act_toggle(force) ==
    /\ selected_indics' = toggle_set(selected_indics, matched_items, item_cursor, force)
    /\ last' = [Did("act_toggle") EXCEPT !.pre = item_cursor]
    /\ UNCHANGED <<layout, matched_items, viewVars, geomVars, infoVars, query, eb>>

act_deselect_all ==
    /\ selected_indics' = {}
    /\ last' = Did("act_deselect_all")
    /\ UNCHANGED <<layout, matched_items, viewVars, geomVars, infoVars, query, eb>>

get_num_selected == Cardinality(selected_indics)

\* --------------------------------------------------------------- navigation
\* line_cursor half without the `height - 1` cap
move_line_nocap(line, diff, h, total_item) ==
    LET y == line + diff IN
    IF diff > 0
    THEN LET tmp == min(y, total_item - 1) IN IF tmp < 0 THEN 0 ELSE tmp
    ELSE max(0, y)

\* line_cursor half without the `total_item - 1` cap
move_line_nototal(line, diff, h, total_item) ==
    LET y == line + diff IN
    IF diff > 0
    THEN LET tmp == min(y, h - 1) IN IF tmp < 0 THEN 0 ELSE tmp
    ELSE max(0, y)

\* act_move_line_cursor, the line_cursor half
move_line(line, diff, h, total_item) ==
    LET y == line + diff IN
    IF diff > 0
    THEN LET tmp == min(min(y, h - 1), total_item - 1) IN IF tmp < 0 THEN 0 ELSE tmp
    ELSE max(0, y)

\* item_cursor half capped at total_item instead of total_item - 1
move_item_off_by_one(item, diff, total_item) ==
    LET item_y == item + diff IN
    IF diff > 0
    THEN LET tmp == min(item_y, total_item) IN IF tmp < 0 THEN 0 ELSE tmp
    ELSE max(0, item_y)

\* item_cursor half without the `tmp < 0` test
move_item_noguard(item, diff, total_item) ==
    LET item_y == item + diff IN
    IF diff > 0 THEN min(item_y, total_item - 1) ELSE max(0, item_y)

\* act_move_line_cursor, the item_cursor half
move_item(item, diff, total_item) ==
    LET item_y == item + diff IN
    IF diff > 0
    THEN LET tmp == min(item_y, total_item - 1) IN IF tmp < 0 THEN 0 ELSE tmp
    ELSE max(0, item_y)

move_line_cursor(diff) ==
    LET total_item == StoreLen(matched_items) IN
    /\ line_cursor' = move_line(line_cursor, diff, height, total_item)
    /\ item_cursor' = move_item(item_cursor, diff, total_item)

act_move_line_cursor(diff) ==
    /\ move_line_cursor(diff)
    /\ last' = Call("act_move_line_cursor", diff, item_cursor, FALSE, FALSE)
    /\ UNCHANGED <<layout, selected_indics, matched_items, geomVars, infoVars, query, eb>>

act_move_page(pages) ==
    LET lines == height * pages IN
    /\ move_line_cursor(lines)
    /\ last' = Call("act_move_page", lines, item_cursor, FALSE, FALSE)
    /\ UNCHANGED <<layout, selected_indics, matched_items, geomVars, infoVars, query, eb>>

\* ------------------------------------------------------------------ output
\* a sort in descending order
RECURSIVE sorted_desc(_)
sorted_desc(S) ==
    IF S = {} THEN <<>>
    ELSE LET m == CHOOSE x \in S : \A y \in S : x >= y IN <<m>> \o sorted_desc(S \ {m})

RECURSIVE sorted(_)
sorted(S) ==
    IF S = {} THEN <<>>
    ELSE LET m == CHOOSE x \in S : \A y \in S : x <= y IN <<m>> \o sorted(S \ {m})

\* output: the lines printed in order; items[*index] panics at the first index
\* that is out of bounds, after the lines before it were printed
output ==
    LET sel == sorted(selected_indics)
        bad == {k \in 1..Len(sel) : sel[k] \notin DOMAIN items}
        n == IF bad = {} THEN Len(sel) ELSE (CHOOSE k \in bad : \A j \in bad : k <= j) - 1
    IN [panic |-> bad # {}, lines |-> [k \in 1..n |-> items[sel[k]].text]]

\* print_items: first store position drawn (usize subtraction)
\* a window that starts one entry late
item_start_pos_shifted == item_cursor - line_cursor + 1

item_start_pos == item_cursor - line_cursor

\* ------------------------------------------------------------ edit commands
\* an edit command that sends the query text read before the edit
edit_command_stale(op, r) ==
    /\ query' = r.q
    /\ eb' = IF r.changed THEN Some(get_query(query)) ELSE eb
    /\ last' = Call(op, 0, 0, r.changed, r.changed)
    /\ UNCHANGED <<layout, selected_indics, matched_items, viewVars, geomVars, infoVars>>

\* the body shared by the character-edit commands: r is what the Query method
\* returned; `if changed { eb.set(EvQueryChange, query.get_query()) }`
edit_command(op, r) ==
    /\ query' = r.q
    /\ eb' = IF r.changed THEN Some(get_query(query')) ELSE eb
    /\ last' = Call(op, 0, 0, r.changed, r.changed)
    /\ UNCHANGED <<layout, selected_indics, matched_items, viewVars, geomVars, infoVars>>

\* a cursor-only command that sets the event like an edit command
cursor_command_notify(op, q) ==
    /\ query' = q
    /\ eb' = Some(get_query(query'))
    /\ last' = Call(op, 0, 0, FALSE, TRUE)
    /\ UNCHANGED <<layout, selected_indics, matched_items, viewVars, geomVars, infoVars>>

\* the body shared by the cursor-only commands: `let _ = self.query.f()`
cursor_command(op, q) ==
    /\ query' = q
    /\ last' = Did(op)
    /\ UNCHANGED <<layout, selected_indics, matched_items, viewVars, geomVars, infoVars, eb>>

act_add_char(ch) ==
    /\ Len(query.buf) < MaxQueryLen
    /\ edit_command("act_add_char", query_add_char(query, ch))
act_backward_delete_char ==
    edit_command("act_backward_delete_char", query_backward_delete_char(query))
act_backward_kill_word ==
    edit_command("act_backward_kill_word", query_backward_kill_word(query))
act_delete_char == edit_command("act_delete_char", query_delete_char(query))
act_kill_line == edit_command("act_kill_line", query_kill_line(query))
act_kill_word == edit_command("act_kill_word", query_kill_word(query))
act_line_discard == edit_command("act_line_discard", query_line_discard(query))

act_backward_char == cursor_command("act_backward_char", query_backward_char(query))
act_backward_word == cursor_command("act_backward_word", query_backward_word(query))
act_beginning_of_line ==
    cursor_command("act_beginning_of_line", query_beginning_of_line(query))
act_end_of_line == cursor_command("act_end_of_line", query_end_of_line(query))
act_forward_char == cursor_command("act_forward_char", query_forward_char(query))
act_forward_word == cursor_command("act_forward_word", query_forward_word(query))

EditOps == {"act_add_char", "act_backward_delete_char", "act_backward_kill_word",
            "act_delete_char", "act_kill_line", "act_kill_word", "act_line_discard"}
CursorOps == {"act_backward_char", "act_backward_word", "act_beginning_of_line",
              "act_end_of_line", "act_forward_char", "act_forward_word"}
SelectOps == {"act_select_all", "act_toggle_all", "act_toggle", "act_deselect_all"}
MoveOps == {"act_move_line_cursor", "act_move_page"}

\* ------------------------------------------------------------------ render
\* unsigned a < b for two usize values kept as described at the top
usize_lt(a, b) == IF (a < 0) = (b < 0) THEN a < b ELSE b < 0

\* print_item's container width, `(self.max_x-3) as usize`
container_width_of(mx) == mx - 3

\* print_items: the rows drawn, in drawing order.  Row i of `0..self.height`
\* is drawn at screen line `(self.height - i - 1) as i32` while the store has
\* an entry at item_start_pos + i; the loop breaks at the first missing entry.
RECURSIVE print_rows(_)
print_rows(i) ==
    LET matched == StoreGet(matched_items, item_start_pos + i) IN
    IF usize_lt(i, height) /\ matched # None
    THEN <<[i |-> i,
            y |-> height - i - 1,
            pos |-> item_start_pos + i,
            index |-> matched[1].index,
            is_current_line |-> (i = line_cursor),
            label |-> IF i = line_cursor THEN ">" ELSE " ",
            is_selected |-> (matched[1].index \in selected_indics)]>>
         \o print_rows(i + 1)
    ELSE <<>>

print_items == print_rows(0)

\* display: erase, print_items, print_info, print_query; it takes &self
display ==
    /\ last' = Did("display")
    /\ UNCHANGED <<layout, selected_indics, matched_items, viewVars, geomVars, infoVars,
                   query, eb>>

\* ------------------------------------------------------- helper functions
\* A char is [id, len_utf8]: id names it (its index in the text it came from,
\* -1 for the '.' of a truncation marker), len_utf8 is its UTF-8 length.
Dot == [id |-> -1, len_utf8 |-> 1]

\* `if c.len_utf8() > 1 {2} else {1}`
char_width(c) == IF c.len_utf8 > 1 THEN 2 ELSE 1

\* display_width: the fold over the chars
RECURSIVE display_width(_)
display_width(text) ==
    IF text = <<>> THEN 0 ELSE char_width(Head(text)) + display_width(Tail(text))

\* text[a..b]; the slice panics unless a <= b <= text.len()
slice_ok(text, a, b) == 0 <= a /\ a <= b /\ b <= Len(text)
slice(text, a, b) == SubSeq(text, a + 1, b)

\* left_fixed's loop from index idx (0-based) with accumulated width w
RECURSIVE left_scan(_, _, _, _)
left_scan(text, mx, idx, w) ==
    IF idx >= Len(text) THEN Len(text) - 1
    ELSE LET w2 == w + char_width(text[idx + 1]) IN
         IF usize_lt(mx, w2) THEN idx - 1 ELSE left_scan(text, mx, idx + 1, w2)

\* left_fixed; `idx-1` and `text.len()-1` are usize subtractions, a negative
\* result is an underflow (panic in a debug build, wrap in a release build)
left_fixed(text, mx) ==
    IF mx = 0 THEN 0 ELSE left_scan(text, mx, 0, 0)

\* right_fixed's reversed loop from index idx (0-based) with accumulated width w
RECURSIVE right_scan(_, _, _, _)
right_scan(text, mx, idx, w) ==
    IF idx < 0 THEN 0
    ELSE LET w2 == w + char_width(text[idx + 1]) IN
         IF usize_lt(mx, w2) THEN idx + 1 ELSE right_scan(text, mx, idx - 1, w2)

right_fixed(text, mx) ==
    IF mx = 0 THEN Len(text) - 1 ELSE right_scan(text, mx, Len(text) - 1, 0)

\* reshape_string: [ret, pos] as returned, left/right the bounds of the text
\* slice copied (the whole suffix when it fits), panic when a slice is out of
\* range.  ret_pos = left_pos - 2 is a usize subtraction.
reshape_string(text, container_width, text_start_pos, matched_end_pos) ==
    LET suffix == slice(text, text_start_pos, Len(text))
        full_width == display_width(suffix)
    IN
    IF ~slice_ok(text, text_start_pos, Len(text))
    THEN [ret |-> <<>>, pos |-> 0, left |-> 0, right |-> 0, panic |-> TRUE]
    ELSE IF ~usize_lt(container_width, full_width)
    THEN [ret |-> suffix, pos |-> text_start_pos, left |-> text_start_pos,
          right |-> Len(text), panic |-> FALSE]
    ELSE
    LET right_pos == 1 + max(matched_end_pos,
                             text_start_pos + left_fixed(suffix, container_width - 2))
        ok1 == slice_ok(text, text_start_pos, right_pos)
        sub == slice(text, text_start_pos, right_pos)
        left1 == text_start_pos + right_fixed(sub, container_width - 2)
        leading == left1 > text_start_pos
        left_pos == IF leading
                    THEN text_start_pos + right_fixed(sub, container_width - 4)
                    ELSE left1
        ret_pos == IF leading THEN left_pos - 2 ELSE left1
        ok2 == slice_ok(text, left_pos, right_pos)
    IN
    IF ~ok1 \/ ~ok2
    THEN [ret |-> <<>>, pos |-> 0, left |-> 0, right |-> 0, panic |-> TRUE]
    ELSE [ret |-> (IF leading THEN <<Dot, Dot>> ELSE <<>>)
                   \o slice(text, left_pos, right_pos) \o <<Dot, Dot>>,
          pos |-> ret_pos, left |-> left_pos, right |-> right_pos, panic |-> FALSE]

\* ----------------------------------------------------------- print_item
\* `hscroll_offset: 0` of Model::new; no method assigns it
hscroll_offset == 0

\* Option<MatchedRange> of a MatchedItem: kind "Chars" with the offsets in
\* indics, kind "Range" with <<start, end>> in indics, or kind "None"
Chars(indics) == [kind |-> "Chars", indics |-> indics]
Range(a, b) == [kind |-> "Range", indics |-> <<a, b>>]
NoRange == [kind |-> "None", indics |-> <<>>]

\* `while let Some(index) = peek() { if idx > index { next() } else { break } }`
RECURSIVE skip_indics(_, _)
skip_indics(rest, idx) ==
    IF rest # <<>> /\ usize_lt(Head(rest), idx) THEN skip_indics(Tail(rest), idx) ELSE rest

\* `for &ch in text.iter()`: the cells drawn from ret[k..], idx counting along
RECURSIVE print_chars(_, _, _, _, _)
print_chars(ret, k, idx, rest, is_current) ==
    IF k > Len(ret) THEN <<>>
    ELSE IF rest # <<>> /\ idx = Head(rest)
    THEN <<[ch |-> ret[k], color |-> "COLOR_MATCHED", is_bold |-> is_current]>>
         \o print_chars(ret, k + 1, idx + 1, Tail(rest), is_current)
    ELSE <<[ch |-> ret[k],
            color |-> IF is_current THEN "COLOR_CURRENT" ELSE "COLOR_NORMAL",
            is_bold |-> is_current]>>
         \o print_chars(ret, k + 1, idx + 1, rest, is_current)

\* print_item of a MatchedItem whose item text is `text` (its chars):
\* the selection marker, then the cells of the text.  Texts hold no tab, so
\* print_char is caddch.
print_item(text, matched, is_current) ==
    LET is_selected == matched.index \in selected_indics
        marker == IF is_selected
                  THEN [ch |-> ">", color |-> "COLOR_SELECTED", is_bold |-> TRUE]
                  ELSE [ch |-> " ",
                        color |-> IF is_current THEN "COLOR_CURRENT" ELSE "COLOR_NORMAL",
                        is_bold |-> FALSE]
        matched_indics == matched.matched_range.indics
        matched_end_pos == IF Len(matched_indics) > 0
                           THEN matched_indics[Len(matched_indics)] ELSE 0
        shaped == reshape_string(text, container_width_of(max_x), hscroll_offset,
                                 matched_end_pos)
    IN
    IF matched.matched_range.kind = "Chars"
    THEN [marker |-> marker,
          cells |-> IF shaped.panic THEN <<>>
                    ELSE print_chars(shaped.ret, 1, shaped.pos,
                                     skip_indics(matched_indics, shaped.pos), is_current),
          panic |-> shaped.panic]
    ELSE [marker |-> marker, cells |-> <<>>, panic |-> FALSE]

\* ------------------------------------------------- calls of the helpers
\* the chars of an item text with UTF-8 lengths ls, char k named by index k-1
text_of(ls) == [k \in 1..Len(ls) |-> [id |-> k - 1, len_utf8 |-> ls[k]]]
\* every text of at most maxlen chars
Texts(maxlen) == UNION {{text_of(ls) : ls \in [1..n -> CharLens]} : n \in 0..maxlen}

\* the strictly ascending sequence of the offsets in S, as the matcher reports them
RECURSIVE ascending(_)
ascending(S) ==
    IF S = {} THEN <<>>
    ELSE LET m == CHOOSE x \in S : \A y \in S : x <= y IN <<m>> \o ascending(S \ {m})

\* the matched ranges a matcher can report on a text
MatchedRanges(text) ==
    {Chars(ascending(S)) : S \in SUBSET (0..(Len(text) - 1))}
        \cup {Range(0, Len(text)), NoRange}

\* arguments waiting for a helper: `layout` before the helper is applied
FixedInputs(T) ==
    {[fn |-> "pending", helper |-> "fixed", text |-> text, mx |-> mx] :
        text \in T, mx \in ContainerWidths}
ReshapeInputs(T) ==
    UNION {{[fn |-> "pending", helper |-> "reshape_string", text |-> text,
             container_width |-> cw, text_start_pos |-> sp, matched_end_pos |-> me] :
                cw \in ContainerWidths, sp \in 0..Len(text), me \in 0..Len(text)} :
           text \in T}
PrintInputs(T) ==
    UNION {{[fn |-> "pending", helper |-> "print_item", text |-> text,
             matched_range |-> mr, is_current |-> cur] :
                mr \in MatchedRanges(text), cur \in BOOLEAN} :
           text \in T}
LayoutInputs(T) == FixedInputs(T) \cup ReshapeInputs(T) \cup PrintInputs(T)

Pending(helper) == layout.fn = "pending" /\ layout.helper = helper

call_left_fixed ==
    /\ Pending("fixed")
    /\ layout' = [fn |-> "left_fixed", text |-> layout.text, mx |-> layout.mx,
                  out |-> left_fixed(layout.text, layout.mx)]
    /\ UNCHANGED <<selected_indics, matched_items, viewVars, geomVars, infoVars,
                   query, eb, last>>

call_right_fixed ==
    /\ Pending("fixed")
    /\ layout' = [fn |-> "right_fixed", text |-> layout.text, mx |-> layout.mx,
                  out |-> right_fixed(layout.text, layout.mx)]
    /\ UNCHANGED <<selected_indics, matched_items, viewVars, geomVars, infoVars,
                   query, eb, last>>

call_reshape_string ==
    /\ Pending("reshape_string")
    /\ layout' = [fn |-> "reshape_string", text |-> layout.text,
                  container_width |-> layout.container_width,
                  text_start_pos |-> layout.text_start_pos,
                  matched_end_pos |-> layout.matched_end_pos,
                  out |-> reshape_string(layout.text, layout.container_width,
                                         layout.text_start_pos, layout.matched_end_pos)]
    /\ UNCHANGED <<selected_indics, matched_items, viewVars, geomVars, infoVars,
                   query, eb, last>>

call_print_item ==
    /\ Pending("print_item")
    /\ layout' = [fn |-> "print_item", text |-> layout.text,
                  matched_range |-> layout.matched_range,
                  is_current |-> layout.is_current,
                  out |-> print_item(layout.text,
                                     [index |-> 0, matched_range |-> layout.matched_range],
                                     layout.is_current)]
    /\ UNCHANGED <<selected_indics, matched_items, viewVars, geomVars, infoVars,
                   query, eb, last>>

\* ------------------------------------------------------------ specification
\* the store, status, geometry, selection and navigation calls
\* (the matcher ranks the identities Ids)
ViewNext(Ids) ==
    \/ \E id \in Ids : push_item(id)
    \/ clear_items
    \/ \E p \in ProgressInputs : update_process_info(p[1], p[2], p[3])
    \/ \E sz \in TermSizes : resize(sz)
    \/ act_select_all
    \/ act_toggle_all
    \/ \E f \in ForceStates : act_toggle(f)
    \/ act_deselect_all
    \/ \E d \in Diffs : act_move_line_cursor(d)
    \/ \E pg \in Pages : act_move_page(pg)

\* the query editing calls, typing characters of C
QueryNext(C) ==
    \/ \E ch \in C : act_add_char(ch)
    \/ act_backward_delete_char
    \/ act_backward_kill_word
    \/ act_delete_char
    \/ act_kill_line
    \/ act_kill_word
    \/ act_line_discard
    \/ act_backward_char
    \/ act_backward_word
    \/ act_beginning_of_line
    \/ act_end_of_line
    \/ act_forward_char
    \/ act_forward_word

Next == ViewNext(0..(NumFrameItems - 1)) \/ QueryNext({"a"}) \/ display

\* every call in any order
Spec == Init /\ [][Next]_vars

\* the calls on the item list alone (the query is not edited)
SpecView == Init /\ [][ViewNext(Identities)]_vars

\* the query editing calls alone (the item list stays empty)
SpecQuery == Init /\ [][QueryNext(QueryChars)]_vars

\* terminal sizes with fewer rows than the two reserved lines
DegenerateSizes == {<<0, 0>>, <<1, 8>>}

GeomNext ==
    \/ ViewNext(0..(NumFrameItems - 1))
    \/ \E sz \in DegenerateSizes : resize(sz)
    \/ display

\* the item list calls and redraws on a terminal that may report a degenerate
\* size, at start-up or at a resize
GeomInit == new(TermSizes \cup DegenerateSizes) /\ layout = NoLayout

SpecGeom == GeomInit /\ [][GeomNext]_vars

\* =================================================================== claims
clamp(x, lo, hi) == max(lo, min(x, hi))
total == StoreLen(matched_items)

\* C1: in every state reached by navigation, selection, store append, store
\* clear and resize calls, 0 <= line_cursor <= min(item_cursor, height - 1),
\* so the window start item_cursor - line_cursor of print_items is >= 0.
C1_ViewportInvariant ==
    /\ height >= 1
    /\ 0 <= line_cursor
    /\ line_cursor <= min(item_cursor, height - 1)
    /\ item_start_pos >= 0

\* a move has scrolled the window: the row is saturated and the rank is past it
C1_Witness ==
    /\ last.op \in MoveOps
    /\ line_cursor = height - 1
    /\ item_cursor > line_cursor
    /\ item_start_pos > 0

\* C2: act_move_line_cursor(diff) moves both cursors by the same diff: for
\* diff > 0 the row is clamped to [0, min(height-1, total-1)] and the rank to
\* [0, total-1]; for diff <= 0 both are max(0, cursor + diff).  With the row
\* saturated at height-1 and the rank below total-1, diff = 1 keeps the row
\* and raises rank - row by one.
C2_MoveCursor ==
    [][\A d \in Diffs : act_move_line_cursor(d) =>
          /\ d > 0 => /\ line_cursor' = clamp(line_cursor + d, 0, min(height - 1, total - 1))
                      /\ item_cursor' = clamp(item_cursor + d, 0, total - 1)
          /\ d <= 0 => /\ line_cursor' = max(0, line_cursor + d)
                       /\ item_cursor' = max(0, item_cursor + d)
          /\ (d = 1 /\ line_cursor = height - 1 /\ item_cursor < total - 1) =>
                /\ line_cursor' = line_cursor
                /\ item_cursor' - line_cursor' = item_cursor - line_cursor + 1]_vars

\* act_move_line_cursor(+1) ran with the row saturated and scrolled the window by one
C2_Witness ==
    /\ last.op = "act_move_line_cursor"
    /\ last.diff = 1
    /\ last.pre >= height - 1
    /\ item_cursor = last.pre + 1
    /\ line_cursor = height - 1
    /\ total > height

\* C3 as claimed: with an empty store, act_move_line_cursor(diff) for any diff
\* sets both cursors to 0.
C3_EmptyStoreAnyDelta ==
    [][\A d \in Diffs : (total = 0 /\ act_move_line_cursor(d)) =>
          (line_cursor' = 0 /\ item_cursor' = 0)]_vars

\* C3 amended: with an empty store, act_move_line_cursor(diff) with diff > 0
\* sets both cursors to 0; with diff <= 0 each cursor becomes max(0, cursor + diff).
C3_EmptyStorePositiveDelta ==
    [][\A d \in Diffs : (total = 0 /\ act_move_line_cursor(d)) =>
          /\ d > 0 => (line_cursor' = 0 /\ item_cursor' = 0)
          /\ d <= 0 => /\ line_cursor' = max(0, line_cursor + d)
                       /\ item_cursor' = max(0, item_cursor + d)]_vars

\* a positive move on an emptied store brought a left-over cursor back to 0
C3_Witness ==
    /\ last.op = "act_move_line_cursor"
    /\ last.diff > 0
    /\ last.pre > 0
    /\ total = 0
    /\ item_cursor = 0
    /\ line_cursor = 0

\* the step is a navigation call moving by n lines
Navigates(n) ==
    \/ n \in Diffs /\ act_move_line_cursor(n)
    \/ \E pg \in Pages : n = height * pg /\ act_move_page(pg)
NavDiffs == Diffs \cup {height * pg : pg \in Pages}

\* C4 as claimed: when item_cursor >= total, the next navigation call, whatever
\* its diff, leaves item_cursor <= max(0, total-1) and line_cursor <= max(0, total-1).
C4_AnyNavigationReclamps ==
    [][\A n \in NavDiffs : (item_cursor >= total /\ Navigates(n)) =>
          /\ item_cursor' <= max(0, total - 1)
          /\ line_cursor' <= max(0, total - 1)]_vars

\* C4 amended: when item_cursor >= total, a navigation call moving by a
\* positive number of lines leaves both cursors <= max(0, total-1); one moving
\* by n <= 0 lines leaves each cursor at max(0, cursor + n).
C4_PositiveNavigationReclamps ==
    [][\A n \in NavDiffs : (item_cursor >= total /\ Navigates(n)) =>
          /\ n > 0 => /\ item_cursor' <= max(0, total - 1)
                      /\ line_cursor' <= max(0, total - 1)
          /\ n <= 0 => /\ item_cursor' = max(0, item_cursor + n)
                       /\ line_cursor' = max(0, line_cursor + n)]_vars

\* a positive navigation call found the cursor beyond a refilled, shorter store
\* and put it on the last entry
C4_Witness ==
    /\ last.op \in MoveOps
    /\ last.diff > 0
    /\ total > 0
    /\ last.pre >= total
    /\ item_cursor = total - 1
    /\ line_cursor <= total - 1

\* the step is one of the four selection calls
SelectionCall ==
    \/ act_select_all
    \/ act_toggle_all
    \/ \E f \in ForceStates : act_toggle(f)
    \/ act_deselect_all

\* C5: only act_toggle, act_select_all, act_toggle_all and act_deselect_all
\* change selected_indics; push_item, clear_items, navigation, query editing,
\* update_process_info and resize leave it as it is, so an index selected
\* before the store is cleared and refilled in another order stays selected.
C5_SelectionFrame ==
    [][(selected_indics' # selected_indics) => SelectionCall]_vars

\* push_item, after the query was edited, has left the selection in place:
\* the one selected index is ranked at a position other than its own number
C5_Witness ==
    /\ last.op = "push_item"
    /\ query.buf # <<>>
    /\ \E k \in 1..total :
          /\ selected_indics = {matched_items[k].index}
          /\ matched_items[k].index # k - 1

\* C6: act_select_all leaves selected_indics as the old set united with the
\* index (identity) of every entry of the store.
C6_SelectAllIdentities ==
    [][act_select_all =>
          selected_indics' = selected_indics \cup StoreIds(matched_items)]_vars

RankPositions == 0..(total - 1)

\* C7 as claimed: with the store unchanged, act_toggle_all applied twice gives
\* back the set it started from.
C7_ToggleAllInvolution ==
    [][act_toggle_all =>
          toggle_all_set(selected_indics', matched_items') = selected_indics]_vars

\* C7 amended: with the store unchanged, act_toggle_all applied twice gives
\* the starting set restricted to 0..len-1, the numbers act_toggle_all
\* complements against; it is the starting set when all its members are below len.
C7_ToggleAllTwice ==
    [][act_toggle_all =>
          /\ toggle_all_set(selected_indics', matched_items')
                = selected_indics \cap RankPositions
          /\ selected_indics \subseteq RankPositions =>
                toggle_all_set(selected_indics', matched_items') = selected_indics]_vars

\* act_toggle_all has produced a proper, non-empty complement
C7_Witness ==
    /\ last.op = "act_toggle_all"
    /\ selected_indics # {}
    /\ selected_indics # RankPositions
    /\ toggle_all_set(selected_indics, matched_items) # {}

\* C8: act_toggle(force) changes nothing when the store has no entry at
\* item_cursor; otherwise, X being that entry's index, Some(true) makes X a
\* member, Some(false) a non-member, None flips it, and no other membership changes.
C8_Toggle ==
    [][\A f \in ForceStates : act_toggle(f) =>
          LET e == StoreGet(matched_items, item_cursor) IN
          /\ e = None => selected_indics' = selected_indics
          /\ e # None =>
                LET X == e[1].index IN
                /\ f = "true" => X \in selected_indics'
                /\ f = "false" => X \notin selected_indics'
                /\ f = "none" => ((X \in selected_indics') <=> (X \notin selected_indics))
                /\ \A y \in (selected_indics \cup selected_indics' \cup Identities) \ {X} :
                      (y \in selected_indics') <=> (y \in selected_indics)]_vars

\* act_toggle selected the entry under the cursor, whose index is not its rank
C8_Witness ==
    /\ last.op = "act_toggle"
    /\ last.pre = item_cursor
    /\ StoreGet(matched_items, item_cursor) # None
    /\ StoreGet(matched_items, item_cursor)[1].index # item_cursor
    /\ StoreGet(matched_items, item_cursor)[1].index \in selected_indics

\* C9: output prints one line per member of selected_indics, the text of the
\* item with that index, in strictly ascending index order, and every member
\* indexes the item table.
C9_Output ==
    /\ selected_indics \subseteq DOMAIN items
    /\ ~output.panic
    /\ Len(output.lines) = Cardinality(selected_indics)
    /\ \A k \in 1..Len(output.lines) :
          \E i \in selected_indics :
             /\ Cardinality({j \in selected_indics : j < i}) = k - 1
             /\ output.lines[k] = items[i].text

\* every item ranked, cursor moved to rank 1 and toggled: the output is the
\* text of the item ranked at position 1
C9_Witness ==
    /\ last.op = "act_toggle"
    /\ last.pre = 1
    /\ total = NumItems
    /\ matched_items[2].index # 1
    /\ selected_indics = {matched_items[2].index}
    /\ output.lines = <<items[matched_items[2].index].text>>

\* what the Query method behind an edit command returns in the current state
EditResults ==
    [act_backward_delete_char |-> query_backward_delete_char(query),
     act_backward_kill_word |-> query_backward_kill_word(query),
     act_delete_char |-> query_delete_char(query),
     act_kill_line |-> query_kill_line(query),
     act_kill_word |-> query_kill_word(query),
     act_line_discard |-> query_line_discard(query)]

Notified(r) ==
    /\ last'.raised <=> r.changed
    /\ r.changed => eb' = Some(get_query(query'))
    /\ ~r.changed => eb' = eb

\* C10: each character-edit command sets the EvQueryChange event if and only
\* if the Query method reported a change, and the payload is the query text
\* after the edit.
C10_EditNotifies ==
    [][/\ \A ch \in QueryChars : act_add_char(ch) => Notified(query_add_char(query, ch))
       /\ act_backward_delete_char => Notified(EditResults.act_backward_delete_char)
       /\ act_backward_kill_word => Notified(EditResults.act_backward_kill_word)
       /\ act_delete_char => Notified(EditResults.act_delete_char)
       /\ act_kill_line => Notified(EditResults.act_kill_line)
       /\ act_kill_word => Notified(EditResults.act_kill_word)
       /\ act_line_discard => Notified(EditResults.act_line_discard)]_vars

\* a deleting command changed a query that is still not empty and the event
\* carries the shortened text
C10_Witness ==
    /\ last.op \in EditOps \ {"act_add_char"}
    /\ last.raised
    /\ query.buf # <<>>
    /\ eb = Some(query.buf)

\* C11: the cursor-only query commands, act_move_line_cursor, act_move_page
\* and the four selection calls never set the EvQueryChange event.
C11_NoNotification ==
    [][(\/ last'.op = "act_backward_char" /\ act_backward_char
        \/ last'.op = "act_backward_word" /\ act_backward_word
        \/ last'.op = "act_beginning_of_line" /\ act_beginning_of_line
        \/ last'.op = "act_end_of_line" /\ act_end_of_line
        \/ last'.op = "act_forward_char" /\ act_forward_char
        \/ last'.op = "act_forward_word" /\ act_forward_word
        \/ last'.op = "act_select_all" /\ act_select_all
        \/ last'.op = "act_toggle_all" /\ act_toggle_all
        \/ last'.op = "act_toggle" /\ \E f \in ForceStates : act_toggle(f)
        \/ last'.op = "act_deselect_all" /\ act_deselect_all
        \/ last'.op = "act_move_line_cursor" /\ act_move_line_cursor(last'.diff)
        \/ last'.op = "act_move_page" /\ \E pg \in Pages : act_move_page(pg)) =>
          (eb' = eb /\ ~last'.raised)]_vars

\* a cursor-only command moved the query cursor of a typed query while items
\* were ranked and selected, and raised nothing
C11_Witness ==
    /\ last.op \in CursorOps
    /\ ~last.raised
    /\ query.buf # <<>>
    /\ query.pos < Len(query.buf)
    /\ eb = Some(query.buf)
    /\ total > 0
    /\ selected_indics # {}

\* C12: when the terminal reports fewer rows than the two reserved lines, the
\* visible row count is 0, a redraw draws no item row, and none of the usize
\* values derived from the geometry has wrapped.
C12_DegenerateGeometry ==
    (max_y < 2) =>
        /\ height = 0
        /\ print_items = <<>>
        /\ ~usize_lt(height, 0) /\ height >= 0
        /\ width >= 0
        /\ container_width_of(max_x) >= 0

\* C13: once a resize has been handled, the visible row and column counts are
\* the ones derived from the terminal size just read: height = max_y - 2 and
\* width = max_x - 2, which the row clamp of act_move_line_cursor and the row
\* loop of print_items use.
C13_GeometryFollowsResize ==
    /\ height = max_y - 2
    /\ width = max_x - 2

\* the text layout helpers and print_item, each applied to the arguments
\* the initial state holds
LayoutNext ==
    \/ call_left_fixed
    \/ call_right_fixed
    \/ call_reshape_string
    \/ call_print_item

LayoutInit == layout \in LayoutInputs(Texts(MaxTextLen)) /\ new(LayoutSizes)

SpecLayout == LayoutInit /\ [][LayoutNext]_vars

\* the source's unit tests: "a中cdef", "a中" and "0123456789"
T_acdef == text_of(<<1, 3, 1, 1, 1, 1>>)
T_a == text_of(<<1, 3>>)
T_digits == text_of(<<1, 1, 1, 1, 1, 1, 1, 1, 1, 1>>)
Ids(s) == [k \in 1..Len(s) |-> s[k].id]
UnitTests ==
    /\ left_fixed(T_acdef, 5) = 3 /\ left_fixed(T_a, 5) = 1 /\ left_fixed(T_a, 0) = 0
    /\ right_fixed(T_acdef, 5) = 2 /\ right_fixed(T_a, 5) = 0 /\ right_fixed(T_a, 0) = 1
    /\ LET r == reshape_string(T_digits, 6, 1, 7) IN Ids(r.ret) = <<-1, -1, 6, 7, -1, -1>> /\ r.pos = 4
    /\ LET r == reshape_string(T_digits, 12, 1, 7) IN Ids(r.ret) = <<1,2,3,4,5,6,7,8,9>> /\ r.pos = 1
    /\ LET r == reshape_string(T_digits, 6, 0, 6) IN Ids(r.ret) = <<-1, -1, 5, 6, -1, -1>> /\ r.pos = 3
    /\ LET r == reshape_string(T_digits, 8, 0, 4) IN Ids(r.ret) = <<0,1,2,3,4,5,-1,-1>> /\ r.pos = 0
    /\ LET r == reshape_string(T_digits, 10, 0, 4) IN Ids(r.ret) = <<0,1,2,3,4,5,6,7,8,9>> /\ r.pos = 0

\* reshape_string was applied to arguments of the contract's domain:
\* container_width >= 4 and text_start_pos <= matched_end_pos < text.len()
ReshapeInDomain ==
    /\ layout.fn = "reshape_string"
    /\ layout.container_width >= 4
    /\ layout.text_start_pos <= layout.matched_end_pos
    /\ layout.matched_end_pos < Len(layout.text)

\* C14: reshape keeps the required position visible: for widths {1,2}, every
\* container width >= 4 and every startPos <= mustShowPos < len(text), the
\* returned slice contains the glyph at absolute index mustShowPos
\* (leftBound <= mustShowPos < rightBound), with or without markers.
C14_MustShowVisible ==
    ReshapeInDomain =>
        /\ ~layout.out.panic
        /\ layout.out.left <= layout.matched_end_pos
        /\ layout.matched_end_pos < layout.out.right
        /\ \E k \in 1..Len(layout.out.ret) : layout.out.ret[k].id = layout.matched_end_pos

\* C15: reshape's anchor contract: the returned anchor is a non-negative index
\* such that each real text glyph at output position k is the glyph at absolute
\* index anchor + k of the original sequence; when the suffix fits, the output
\* is text[startPos:] unchanged, anchored at startPos, with no markers.
C15_AnchorContract ==
    (layout.fn = "reshape_string" /\ ~layout.out.panic) =>
        LET out == layout.out
            suffix == slice(layout.text, layout.text_start_pos, Len(layout.text))
        IN
        /\ out.pos >= 0
        /\ \A k \in 0..(Len(out.ret) - 1) :
              out.ret[k + 1] # Dot => out.ret[k + 1].id = out.pos + k
        /\ display_width(suffix) <= layout.container_width =>
              (out.ret = suffix /\ out.pos = layout.text_start_pos)

\* C16: reshape fits the column budget: for widths {1,2}, every container
\* width >= 4 and every startPos <= mustShowPos < len(text), the display width
\* of the returned sequence, markers included, is at most the container width.
C16_FitsBudget ==
    ReshapeInDomain =>
        /\ ~layout.out.panic
        /\ display_width(layout.out.ret) <= layout.container_width

\* left_fixed or right_fixed was applied to a non-empty text
FixedOnNonEmpty(fn) == layout.fn = fn /\ Len(layout.text) > 0

\* width of the first n chars of text / of the chars from index i to the end
prefix_width(text, n) == display_width(SubSeq(text, 1, n))
suffix_width(text, i) == display_width(SubSeq(text, i + 1, Len(text)))

\* C17: for every non-empty glyph sequence over widths {1,2} and every
\* budget >= 0, leftFixed returns the index in [0, len-1] of the last glyph
\* whose prefix width is <= maxWidth (0 if maxWidth <= 0, len-1 if everything
\* fits) and rightFixed the index in [0, len-1] of the first glyph whose suffix
\* has width <= maxWidth (len-1 if maxWidth <= 0, 0 if everything fits);
\* neither computes an index below 0 or above len-1.
C17_FixedIndices ==
    /\ FixedOnNonEmpty("left_fixed") =>
          LET text == layout.text  mx == layout.mx  out == layout.out IN
          /\ out \in 0..(Len(text) - 1)
          /\ IF mx <= 0 THEN out = 0
             ELSE /\ prefix_width(text, out + 1) <= mx
                  /\ out < Len(text) - 1 => prefix_width(text, out + 2) > mx
    /\ FixedOnNonEmpty("right_fixed") =>
          LET text == layout.text  mx == layout.mx  out == layout.out IN
          /\ out \in 0..(Len(text) - 1)
          /\ IF mx <= 0 THEN out = Len(text) - 1
             ELSE /\ suffix_width(text, out) <= mx
                  /\ out > 0 => suffix_width(text, out - 1) > mx

\* the chars drawn by print_item's text cells
DrawnChars(cells) == [k \in 1..Len(cells) |-> cells[k].ch]

\* mustShowPos of a highlight span: its last offset, 0 when there is none
MustShowPos(mr) ==
    IF mr.kind # "None" /\ Len(mr.indics) > 0 THEN mr.indics[Len(mr.indics)] ELSE 0

\* C18: every rendered row draws its candidate's text slice as the layout
\* engine returns it, whatever the kind of its highlight span (a set of
\* offsets, a contiguous range, or none, with mustShowPos = 0 when there is
\* no span); a row with a range span or no span still shows its text.
C18_RowDrawsText ==
    layout.fn = "print_item" =>
        LET shaped == reshape_string(layout.text, container_width_of(max_x),
                                     hscroll_offset,
                                     IF layout.matched_range.kind = "Range"
                                     THEN layout.matched_range.indics[2] - 1
                                     ELSE MustShowPos(layout.matched_range))
        IN ~shaped.panic => DrawnChars(layout.out.cells) = shaped.ret

\* the offsets of a Chars span
Highlighted(mr) == {mr.indics[k] : k \in 1..Len(mr.indics)}

\* C19: highlight styling in a rendered row: for a strictly ascending set of
\* highlight offsets, a drawn glyph receives highlight styling if and only if
\* it is a real text glyph whose absolute offset is in the set; the leading
\* and trailing truncation markers are never highlighted and every
\* highlighted offset inside the visible window is drawn highlighted.
C19_HighlightStyling ==
    (layout.fn = "print_item" /\ layout.matched_range.kind = "Chars"
        /\ ~layout.out.panic) =>
        \A k \in 1..Len(layout.out.cells) :
            LET cell == layout.out.cells[k] IN
            (cell.color = "COLOR_MATCHED") <=>
                (cell.ch # Dot /\ cell.ch.id \in Highlighted(layout.matched_range))

\* the rows of print_items that carry the cursor label
CursorRows == {k \in 1..Len(print_items) : print_items[k].is_current_line}

\* exactly one drawn row carries the cursor label and it shows the store
\* entry at item_cursor
CursorRowDrawn ==
    /\ Cardinality(CursorRows) = 1
    /\ item_cursor >= 0 /\ item_cursor < StoreLen(matched_items)
    /\ item_start_pos + line_cursor = item_cursor
    /\ \A k \in CursorRows :
          /\ print_items[k].i = line_cursor
          /\ print_items[k].label = ">"
          /\ print_items[k].pos = item_cursor
          /\ print_items[k].index = matched_items[item_cursor + 1].index

\* display() ran on a non-empty store with at least one visible row
Redrawn == last.op = "display" /\ StoreLen(matched_items) > 0 /\ usize_lt(0, height)

\* C20 as stated: at every redraw with a non-empty store and visibleRows >= 1,
\* after any sequence of navigation, append and clear operations, exactly one
\* rendered row carries the cursor marker and shows the entry at rankCursor.
C20_CursorRowAlways == Redrawn => CursorRowDrawn

\* C20 amended: the same at every redraw at which rankCursor < length, that is
\* unless a clear and a shorter refill have left the cursor beyond the store.
C20_CursorRowWhenInRange ==
    (Redrawn /\ item_cursor < StoreLen(matched_items)) => CursorRowDrawn

\* a redraw of a two-entry store after the cursor moved to the second entry
C20_Witness ==
    /\ Redrawn /\ StoreLen(matched_items) = 2 /\ item_cursor = 1
    /\ CursorRowDrawn

====
